---------------------------- MODULE Spec2Model ----------------------------
(***************************************************************************)
(* A model of the picture-hanging assistant (main_realtime.py and the      *)
(* modules it calls): the real-time alignment loop of main, the corner     *)
(* ordering / validation / rectification steps of the pipeline, the        *)
(* forward and inverse perspective transforms of perspective_transform.py, *)
(* line classification and representative-line selection, Line.is_meeting, *)
(* the grid interface of grid_class.py, steps 3 to 5 of main with          *)
(* find_intersection_points, the rectification calls of main and the       *)
(* CamScanner of cam_scanner.py.  Each part has its own variables and its  *)
(* own specification; the other parts stay idle.                           *)
(*                                                                         *)
(* Sub-pixel coordinates (template centres are means of four corners, so   *)
(* they fall on half pixels) are kept as integers in units of 1/SubPixel   *)
(* of a pixel.                                                             *)
(***************************************************************************)
EXTENDS Integers, Sequences, FiniteSets, TLC

VARIABLES
    \* ---- alignment loop of main (main_realtime.py 326-368)
    pc,              \* "idle" | "loop" | "released" | "raised"
    vidOpen,         \* the cv2.VideoCapture is open (not yet released)
    selected_point,  \* the Vertex returned by draw_grid_on_slice, or None
    keyQ,            \* the operator has pressed 'q' (not yet read by waitKey)
    trace,           \* one record per loop iteration: what it saw and said
    \* ---- validate_and_get_points (main_realtime.py 190-237)
    vpc,             \* "idle" | "call" | "returned"
    v_points,        \* the ordered_points argument
    v_result,        \* the returned list
    \* ---- corner steps of main (main_realtime.py 291-297)
    mpc,             \* "idle" | "camscanner" | "rectified"
    intersection_points,
    ordered_points,
    src_points,      \* the quadrilateral handed to compute_perspective_transform
    \* ---- apply_inverse_perspective_transform (perspective_transform.py 76-101)
    ipc,             \* "idle" | "call" | "returned" | "raised"
    original_img,
    quad,            \* the src_points argument
    warped_img,      \* what cv2.warpPerspective made of processed_img
    result,          \* the returned image
    \* ---- compute_perspective_transform (perspective_transform.py 44-74)
    cpc,             \* "idle" | "call" | "returned" | "raised"
    c_points,        \* the src_points argument
    M,               \* the returned matrix
    rectified_size,  \* (width, height) of the returned image
    \* ---- detect_and_classify_lines (main_realtime.py 57-90)
    dpc,             \* "idle" | "call" | "returned"
    image_shape,     \* image.shape: (height, width)
    d_lines,         \* what detect_lines returned: None or a list of lines
    image_lines,     \* the module-level list
    borders,         \* the returned top, bottom, left, right
    \* ---- select_most_representative_line (line_processing.py 142-181)
    spc,             \* "idle" | "call" | "returned"
    lines_group,     \* the four lists: top, bottom, left, right
    selected_lines,  \* the returned list
    \* ---- Line.is_meeting (line.py 45-62)
    kpc,             \* "idle" | "call" | "returned"
    line_a,
    line_b,
    meet_ab,         \* line_a.is_meeting(line_b)
    meet_ba,         \* line_b.is_meeting(line_a)
    \* ---- GridInterface (grid_class.py)
    gpc,             \* "idle" | "open" | "returned" | "quit"
    border_lines,
    state,           \* CHOOSE_AREA | CHOOSE_POINT_ON_GRID
    selected_slice,
    grid_lines,
    point_on_grid,
    select_point,    \* a grid point or None
    event,           \* the canvas position of the last click
    printed,         \* what the last click printed as an error
    \* ---- steps 3 to 5 of main (main_realtime.py 281-292)
    bpc,             \* "idle" | "detect" | "select" | "substitute" | "intersect" | "found"
    b_detected,      \* what detect_lines returns for the frame of main
    b_image_lines,   \* the global image_lines
    lines_groups,
    representative_lines,
    b_points,        \* the result of find_intersection_points
    \* ---- rectification in main (main_realtime.py 297, 314, 333-338)
    apc,             \* "idle" | "rectify" | "capture" | "loop" | "match" | "released"
    a_ordered_points,
    a_wide,          \* the precision of the final division of output_height
    a_selected_point,
    a_M,             \* the matrix returned in step 6
    a_frame_M,       \* the matrix the last frame was warped with
    a_transforms,    \* calls of cv2.getPerspectiveTransform so far
    a_frames,        \* frames captured so far
    \* ---- CamScanner (cam_scanner.py)
    scan_pc,         \* "idle" | "init" | "open" | "raised" | "returned" | "quit"
    points_given,    \* FALSE when points is None
    initial_points,
    vertex_list,
    click_count,
    scan_event,      \* the last handler that ran
    click_at,        \* the canvas position of the last click
    tuple_list       \* what run_camscanner_realtime returns

loopVars == <<pc, vidOpen, selected_point, keyQ, trace>>
valVars  == <<vpc, v_points, v_result>>
mainVars == <<mpc, intersection_points, ordered_points, src_points>>
invVars  == <<ipc, original_img, quad, warped_img, result>>
transformVars == <<cpc, c_points, M, rectified_size>>
linesVars == <<dpc, image_shape, d_lines, image_lines, borders>>
selectVars == <<spc, lines_group, selected_lines>>
meetVars == <<kpc, line_a, line_b, meet_ab, meet_ba>>
gridVars == <<gpc, border_lines, state, selected_slice, grid_lines, point_on_grid, select_point, event, printed>>
bordersVars == <<bpc, b_detected, b_image_lines, lines_groups, representative_lines, b_points>>
alignVars == <<apc, a_ordered_points, a_wide, a_selected_point, a_M, a_frame_M, a_transforms, a_frames>>
scanVars == <<scan_pc, points_given, initial_points, vertex_list, click_count, scan_event, click_at, tuple_list>>
vars == <<loopVars, valVars, mainVars, invVars, transformVars,
          linesVars, selectVars, meetVars, gridVars, bordersVars,
          alignVars, scanVars>>

None == <<>>

Abs(n) == IF n < 0 THEN -n ELSE n

-----------------------------------------------------------------------------
(* Bounds of the model *)

\* coordinate units per pixel (2: half pixels)
SubPixel == 2
\* loop iterations followed
MaxFrames == 3

Px(n) == n * SubPixel

LoopIdle == pc = "idle" /\ vidOpen = FALSE /\ selected_point = None
            /\ keyQ = FALSE /\ trace = <<>>
ValIdle  == vpc = "idle" /\ v_points = <<>> /\ v_result = <<>>
MainIdle == mpc = "idle" /\ intersection_points = <<>>
            /\ ordered_points = <<>> /\ src_points = None
InvIdle  == ipc = "idle" /\ original_img = <<>> /\ quad = <<>>
            /\ warped_img = <<>> /\ result = None
TransformIdle == cpc = "idle" /\ c_points = <<>> /\ M = None
                 /\ rectified_size = None
LinesIdle == dpc = "idle" /\ image_shape = <<>> /\ d_lines = None
             /\ image_lines = <<>> /\ borders = None
SelectIdle == spc = "idle" /\ lines_group = <<>> /\ selected_lines = <<>>
MeetIdle == kpc = "idle" /\ line_a = None /\ line_b = None
            /\ meet_ab = None /\ meet_ba = None
GridIdle == gpc = "idle" /\ border_lines = <<>> /\ state = 0
            /\ selected_slice = 0 /\ grid_lines = <<>> /\ point_on_grid = <<>>
            /\ select_point = None /\ event = None /\ printed = ""

BordersIdle == bpc = "idle" /\ b_detected = <<>> /\ b_image_lines = <<>>
               /\ lines_groups = <<>> /\ representative_lines = <<>> /\ b_points = <<>>

AlignIdle == apc = "idle" /\ a_ordered_points = <<>> /\ a_wide = FALSE
             /\ a_selected_point = None /\ a_M = None /\ a_frame_M = None
             /\ a_transforms = 0 /\ a_frames = 0

ScanIdle == scan_pc = "idle" /\ points_given = FALSE /\ initial_points = <<>>
            /\ vertex_list = <<>> /\ click_count = 0 /\ scan_event = ""
            /\ click_at = None /\ tuple_list = None

\* every part of the program but the named one is left alone
IdleBut(part) ==
    /\ part = "loop" \/ LoopIdle
    /\ part = "validate" \/ ValIdle
    /\ part = "main" \/ MainIdle
    /\ part = "inverse" \/ InvIdle
    /\ part = "transform" \/ TransformIdle
    /\ part = "lines" \/ LinesIdle
    /\ part = "select" \/ SelectIdle
    /\ part = "meet" \/ MeetIdle
    /\ part = "grid" \/ GridIdle
    /\ part = "borders" \/ BordersIdle
    /\ part = "align" \/ AlignIdle
    /\ part = "scan" \/ ScanIdle

-----------------------------------------------------------------------------
(* The alignment loop of main *)

MOVE_LEFT  == "Move left"
MOVE_RIGHT == "Move right"
MOVE_UP    == "Move up"
MOVE_DOWN  == "Move down"
SUCCESS    == "You've come to the right location!"

\* the target points tried: a lattice point, or None when the grid interface
\* was confirmed before any lattice point was clicked
Targets == { <<Px(100), Px(100)>> }

\* detected template centres tried (x and y around the target, sub-pixel too)
CentreXs == { Px(99), Px(100) - 1, Px(100), Px(101), Px(110) }
CentreYs == { Px(95), Px(99), Px(100), Px(100) + 1, Px(101) }
Centres  == CentreXs \X CentreYs

\* abs(dx) < 1 and abs(dy) < 1
IsAlignedLoose(dx, dy) == Abs(dx) <= Px(1) /\ Abs(dy) <= Px(1)
IsAligned(dx, dy) == Abs(dx) < Px(1) /\ Abs(dy) < Px(1)

\* elif dx > 0: "Move left" else: "Move right"
HorizontalSymbolGated(dx) ==
    IF dx > 0 THEN <<MOVE_LEFT>> ELSE IF dx < 0 THEN <<MOVE_RIGHT>> ELSE <<>>
HorizontalSymbol(dx) == IF dx > 0 THEN <<MOVE_LEFT>> ELSE <<MOVE_RIGHT>>

\* if dy > 0: "Move up" else: "Move down"
VerticalSymbolFlipped(dy) == IF dy > 0 THEN <<MOVE_DOWN>> ELSE <<MOVE_UP>>
VerticalSymbol(dy) == IF dy > 0 THEN <<MOVE_UP>> ELSE <<MOVE_DOWN>>

\* what one iteration of the loop did: keyChecked says cv2.waitKey was called
Iteration(outcome, centre, said, keyChecked) ==
    [outcome |-> outcome, centre |-> centre, said |-> said,
     keyChecked |-> keyChecked]

\* vid.release() after the loop
Release == pc' = "released" /\ vidOpen' = FALSE

\* if cv2.waitKey(1) & 0xFF == ord('q'): break
WaitKey == IF keyQ THEN Release ELSE pc' = "loop" /\ UNCHANGED vidOpen

Running == pc = "loop" /\ Len(trace) < MaxFrames

LoopOnly ==
    UNCHANGED <<valVars, mainVars, invVars, transformVars,
                linesVars, selectVars, meetVars, gridVars,
                bordersVars, alignVars, scanVars>>

LoopInit ==
    /\ pc = "loop"
    /\ vidOpen = TRUE
    /\ selected_point \in Targets \cup {None}
    /\ keyQ = FALSE
    /\ trace = <<>>

\* the operator presses 'q'
PressQ ==
    /\ pc = "loop" /\ ~keyQ
    /\ keyQ' = TRUE
    /\ UNCHANGED <<pc, vidOpen, selected_point, trace>>
    /\ LoopOnly

\* capture_frame returns None: `continue`
CaptureFailedGivesUp ==
    /\ Running
    /\ trace' = Append(trace, Iteration("capture_failed", None, <<>>, FALSE))
    /\ Release
    /\ UNCHANGED <<selected_point, keyQ>>
    /\ LoopOnly
CaptureFailed ==
    /\ Running
    /\ trace' = Append(trace, Iteration("capture_failed", None, <<>>, FALSE))
    /\ UNCHANGED <<pc, vidOpen, selected_point, keyQ>>
    /\ LoopOnly

\* detect_template returns None (the template image cannot be read)
NoTemplate ==
    /\ Running
    /\ trace' = Append(trace, Iteration("no_template", None, <<>>, TRUE))
    /\ WaitKey
    /\ UNCHANGED <<selected_point, keyQ>>
    /\ LoopOnly

\* a centre is detected but selected_point is None: selected_point.x raises
\* AttributeError, which leaves main without reaching vid.release()
TargetMissing ==
    /\ Running
    /\ selected_point = None
    /\ \E c \in Centres :
         trace' = Append(trace, Iteration("raised", c, <<>>, FALSE))
    /\ pc' = "raised"
    /\ UNCHANGED <<vidOpen, selected_point, keyQ>>
    /\ LoopOnly

\* a centre is detected within the threshold: confirmation and break
AlignedKeepsGuiding ==
    /\ Running
    /\ selected_point # None
    /\ \E c \in Centres :
         LET dx == c[1] - selected_point[1]
             dy == c[2] - selected_point[2]
         IN  /\ IsAligned(dx, dy)
             /\ trace' = Append(trace, Iteration("aligned", c,
                            <<SUCCESS>> \o VerticalSymbol(dy), TRUE))
    /\ WaitKey
    /\ UNCHANGED <<selected_point, keyQ>>
    /\ LoopOnly
Aligned ==
    /\ Running
    /\ selected_point # None
    /\ \E c \in Centres :
         LET dx == c[1] - selected_point[1]
             dy == c[2] - selected_point[2]
         IN  /\ IsAligned(dx, dy)
             /\ trace' = Append(trace, Iteration("aligned", c, <<SUCCESS>>, FALSE))
    /\ Release
    /\ UNCHANGED <<selected_point, keyQ>>
    /\ LoopOnly

\* a centre is detected outside the threshold: two spoken directions
Guide ==
    /\ Running
    /\ selected_point # None
    /\ \E c \in Centres :
         LET dx == c[1] - selected_point[1]
             dy == c[2] - selected_point[2]
         IN  /\ ~IsAligned(dx, dy)
             /\ trace' = Append(trace, Iteration("guided", c,
                            HorizontalSymbol(dx) \o VerticalSymbol(dy), TRUE))
    /\ WaitKey
    /\ UNCHANGED <<selected_point, keyQ>>
    /\ LoopOnly

Init == LoopInit /\ IdleBut("loop")
Next == PressQ \/ CaptureFailed \/ NoTemplate \/ TargetMissing \/ Aligned \/ Guide
Spec == Init /\ [][Next]_vars

-----------------------------------------------------------------------------
(* Corner ordering and validation (main_realtime.py) *)

\* frame size of the wall photograph, in pixels
FrameW == 40
FrameH == 40

\* corner coordinates tried: two per half of the frame on each axis
XCoords == { FrameW \div 8, 3 * (FrameW \div 8), 5 * (FrameW \div 8), 7 * (FrameW \div 8) }
YCoords == { FrameH \div 8, 3 * (FrameH \div 8), 5 * (FrameH \div 8), 7 * (FrameH \div 8) }
Corners == XCoords \X YCoords

\* the orders in which an argsort on coordinate k may return the rows of s:
\* every arrangement with non-decreasing keys (the default sort kind of numpy
\* does not promise an order among equal keys)
ArgSorted(s, k) ==
    LET n == Len(s)
        perms == { q \in [1..n -> 1..n] :
                     /\ \A i, j \in 1..n : i # j => q[i] # q[j]
                     /\ \A i \in 1..(n - 1) : s[q[i]][k] <= s[q[i + 1]][k] }
    IN  { [i \in 1..n |-> s[q[i]]] : q \in perms }

\* order_points: sort by x, split in two halves of two, sort each half by y
order_points(pts) ==
    UNION { { << l[1], r[1], r[2], l[2] >> :
                l \in ArgSorted(SubSeq(xs, 1, 2), 2),
                r \in ArgSorted(SubSeq(xs, 3, 4), 2) } :
            xs \in ArgSorted(pts, 1) }

cross_product(o, a, b) ==
    (a[1] - o[1]) * (b[2] - o[2]) - (a[2] - o[2]) * (b[1] - o[1])

\* is_connected_shape of validate_and_get_points
is_connected_shape(points) ==
    LET cp1 == cross_product(points[1], points[2], points[3])
        cp2 == cross_product(points[2], points[3], points[4])
        cp3 == cross_product(points[3], points[4], points[1])
        cp4 == cross_product(points[4], points[1], points[2])
    IN  (cp1 * cp3 <= 0) /\ (cp2 * cp4 <= 0)

\* is_point_in_quadrant of validate_and_get_points (quadrants 0..3)
is_point_in_quadrant(point, quadrant, frame_width, frame_height) ==
    LET x == point[1]
        y == point[2]
    IN  CASE quadrant = 0 ->
               0 <= x /\ x < frame_width \div 2 /\ 0 <= y /\ y < frame_height \div 2
          [] quadrant = 1 ->
               frame_width \div 2 <= x /\ x < frame_width /\ 0 <= y /\ y < frame_height \div 2
          [] quadrant = 2 ->
               frame_width \div 2 <= x /\ x < frame_width
               /\ frame_height \div 2 <= y /\ y < frame_height
          [] quadrant = 3 ->
               0 <= x /\ x < frame_width \div 2 /\ frame_height \div 2 <= y /\ y < frame_height

default_points(frame_height, frame_width) ==
    << <<10, 10>>, <<frame_width - 10, 10>>,
       <<frame_width - 10, frame_height - 10>>, <<10, frame_height - 10>> >>

\* validate_and_get_points without its quadrant loop
validate_and_get_pointsNoQuadrants(points, frame_height, frame_width) ==
    IF Len(points) # 4
    THEN default_points(frame_height, frame_width)
    ELSE IF ~is_connected_shape(points)
    THEN default_points(frame_height, frame_width)
    ELSE points

validate_and_get_points(points, frame_height, frame_width) ==
    IF Len(points) # 4
    THEN default_points(frame_height, frame_width)
    ELSE IF \E i \in 1..4 :
               ~is_point_in_quadrant(points[i], i - 1, frame_width, frame_height)
    THEN default_points(frame_height, frame_width)
    ELSE IF ~is_connected_shape(points)
    THEN default_points(frame_height, frame_width)
    ELSE points

ValOnly ==
    UNCHANGED <<loopVars, mainVars, invVars, transformVars,
                linesVars, selectVars, meetVars, gridVars,
                bordersVars, alignVars, scanVars>>

\* a call of validate_and_get_points with three or four points of the frame
ValInit ==
    /\ vpc = "call"
    /\ v_points \in [1..4 -> Corners] \cup [1..3 -> Corners]
    /\ v_result = <<>>

Validate ==
    /\ vpc = "call"
    /\ v_result' = validate_and_get_points(v_points, FrameH, FrameW)
    /\ vpc' = "returned"
    /\ UNCHANGED v_points
    /\ ValOnly

InitValidate == ValInit /\ IdleBut("validate")
NextValidate == Validate
SpecValidate == InitValidate /\ [][NextValidate]_vars

-----------------------------------------------------------------------------
(* Steps 6 of main: corner correction, ordering, rectification (291-297) *)

MainOnly ==
    UNCHANGED <<loopVars, valVars, invVars, transformVars,
                linesVars, selectVars, meetVars, gridVars,
                bordersVars, alignVars, scanVars>>

MainInit ==
    /\ mpc = "camscanner"
    /\ intersection_points = <<>>
    /\ ordered_points = <<>>
    /\ src_points = None

\* run_camscanner_realtime returns the four vertices the user confirmed; the
\* vertex list was last sorted by y in draw_square (cam_scanner.py 269)
RunCamScanner ==
    /\ mpc = "camscanner"
    /\ \E pts \in [1..4 -> Corners] :
         /\ \A i \in 1..3 : pts[i][2] <= pts[i + 1][2]
         /\ intersection_points' = pts
    /\ mpc' = "order"
    /\ UNCHANGED <<ordered_points, src_points>>
    /\ MainOnly

\* ordered_points = order_points(intersection_points)
OrderPoints ==
    /\ mpc = "order"
    /\ ordered_points' \in order_points(intersection_points)
    /\ mpc' = "rectify"
    /\ UNCHANGED <<intersection_points, src_points>>
    /\ MainOnly

\* rectify_image(copy_image, ordered_points): the points go straight to
\* compute_perspective_transform as its src_points
RectifyImage ==
    /\ mpc = "rectify"
    /\ src_points' = ordered_points
    /\ mpc' = "rectified"
    /\ UNCHANGED <<intersection_points, ordered_points>>
    /\ MainOnly

InitMain == MainInit /\ IdleBut("main")
NextMain == RunCamScanner \/ OrderPoints \/ RectifyImage
SpecMain == InitMain /\ [][NextMain]_vars

-----------------------------------------------------------------------------
(* apply_inverse_perspective_transform (perspective_transform.py 76-101) *)

\* image size in pixels; one 8-bit channel is followed (the three channels
\* of a pixel go through the same element-wise operations)
ImgW == 3
ImgH == 3

Pixels == (0..(ImgW - 1)) \X (0..(ImgH - 1))

\* an 8-bit image: a ramp starting at seed
Ramp(seed, step) == [p \in Pixels |-> (seed + step * (p[1] + ImgW * p[2])) % 256]

OriginalImages == { Ramp(s, 37) : s \in {0, 100, 255} }
\* what cv2.warpPerspective(processed_img, inv_M, ...) may give
WarpedImages == { Ramp(s, 61) : s \in {0, 1, 200, 255} }

\* the quadrilaterals tried: rectangles and right triangles (the bottom-left
\* corner moved onto the bottom-right one) with corners on pixels
Quads ==
    { << <<x0, y0>>, <<x1, y0>>, <<x1, y1>>, <<x0, y1>> >> :
        x0 \in 0..(ImgW - 1), x1 \in 0..(ImgW - 1), y0 \in 0..(ImgH - 1), y1 \in 0..(ImgH - 1) }
    \cup
    { << <<x0, y0>>, <<x1, y0>>, <<x1, y1>>, <<x1, y1>> >> :
        x0 \in 0..(ImgW - 1), x1 \in 0..(ImgW - 1), y0 \in 0..(ImgH - 1), y1 \in 0..(ImgH - 1) }

ConvexQuads == { q \in Quads : q[1][1] <= q[2][1] /\ q[1][2] <= q[3][2] }

Min4(a, b, c, d) == CHOOSE m \in {a, b, c, d} : \A n \in {a, b, c, d} : m <= n
Max4(a, b, c, d) == CHOOSE m \in {a, b, c, d} : \A n \in {a, b, c, d} : m >= n

\* cv2.fillConvexPoly: the pixels inside the convex polygon or on its outline
InConvexPoly(p, q) ==
    LET c1 == cross_product(q[1], q[2], p)
        c2 == cross_product(q[2], q[3], p)
        c3 == cross_product(q[3], q[4], p)
        c4 == cross_product(q[4], q[1], p)
    IN  /\ Min4(q[1][1], q[2][1], q[3][1], q[4][1]) <= p[1]
        /\ p[1] <= Max4(q[1][1], q[2][1], q[3][1], q[4][1])
        /\ Min4(q[1][2], q[2][2], q[3][2], q[4][2]) <= p[2]
        /\ p[2] <= Max4(q[1][2], q[2][2], q[3][2], q[4][2])
        /\ \/ (c1 >= 0 /\ c2 >= 0 /\ c3 >= 0 /\ c4 >= 0)
           \/ (c1 <= 0 /\ c2 <= 0 /\ c3 <= 0 /\ c4 <= 0)

RECURSIVE BitAnd(_, _)
BitAnd(a, b) ==
    IF a = 0 \/ b = 0 THEN 0
    ELSE (a % 2) * (b % 2) + 2 * BitAnd(a \div 2, b \div 2)

RECURSIVE BitOr(_, _)
BitOr(a, b) ==
    IF a = 0 THEN b ELSE IF b = 0 THEN a
    ELSE (IF a % 2 = 1 \/ b % 2 = 1 THEN 1 ELSE 0) + 2 * BitOr(a \div 2, b \div 2)

\* mask = zeros_like(original); fillConvexPoly(mask, src_points, 255)
PolyMask(q) == [p \in Pixels |-> IF InConvexPoly(p, q) THEN 255 ELSE 0]

\* result = bitwise_and(warped, mask); result += original_img  (uint8)
apply_inverse_perspective_transformOr(warped, original, q) ==
    [p \in Pixels |-> (BitOr(warped[p], PolyMask(q)[p]) + original[p]) % 256]
apply_inverse_perspective_transform(warped, original, q) ==
    [p \in Pixels |-> (BitAnd(warped[p], PolyMask(q)[p]) + original[p]) % 256]

InvOnly ==
    UNCHANGED <<loopVars, valVars, mainVars, transformVars,
                linesVars, selectVars, meetVars, gridVars,
                bordersVars, alignVars, scanVars>>

InvInit ==
    /\ ipc = "call"
    /\ original_img \in OriginalImages
    /\ quad \in ConvexQuads
    /\ warped_img = <<>>
    /\ result = <<>>

\* the call returns the composited image
ApplyInverse ==
    /\ ipc = "call"
    /\ \E warped \in WarpedImages :
         /\ warped_img' = warped
         /\ result' = apply_inverse_perspective_transform(warped, original_img, quad)
    /\ ipc' = "returned"
    /\ UNCHANGED <<original_img, quad>>
    /\ InvOnly

\* np.linalg.inv(M) raises LinAlgError on a singular M: nothing is returned
ApplyInverseRaises ==
    /\ ipc = "call"
    /\ ipc' = "raised"
    /\ UNCHANGED <<original_img, quad, warped_img, result>>
    /\ InvOnly

InitInverse == InvInit /\ IdleBut("inverse")
NextInverse == ApplyInverse \/ ApplyInverseRaises
SpecInverse == InitInverse /\ [][NextInverse]_vars

-----------------------------------------------------------------------------
(* compute_perspective_transform (perspective_transform.py 44-74) *)

\* the default of the output_width parameter
output_width == 800

\* corner coordinates tried (pixels)
TransformXs == {0, 2, 100}
TransformYs == {0, 7, 182}
TransformCorners == TransformXs \X TransformYs

SquaredLength(a, b) ==
    (b[1] - a[1]) * (b[1] - a[1]) + (b[2] - a[2]) * (b[2] - a[2])

\* the length of a-b is a whole number (it is at most |dx| + |dy|)
IsWhole(a, b) ==
    \E r \in 0..(Abs(b[1] - a[1]) + Abs(b[2] - a[2])) : r * r = SquaredLength(a, b)

\* np.sqrt((bx - ax) ** 2 + (by - ay) ** 2), exact in float32 for a whole
\* length of these sizes
EdgeLength(a, b) ==
    CHOOSE r \in 0..(Abs(b[1] - a[1]) + Abs(b[2] - a[2])) : r * r = SquaredLength(a, b)

\* the edge lengths, in the order the code takes them
width_top(q)    == EdgeLength(q[1], q[2])
width_bottom(q) == EdgeLength(q[4], q[3])
height_left(q)  == EdgeLength(q[1], q[4])
height_right(q) == EdgeLength(q[2], q[3])

\* twice width_avg and twice height_avg (the halves are exact in float32)
WidthSum(q)  == width_top(q) + width_bottom(q)
HeightSum(q) == height_left(q) + height_right(q)

\* the quadrilaterals tried: those whose four edges have whole lengths
TransformQuads ==
    { q \in [1..4 -> TransformCorners] :
        /\ IsWhole(q[1], q[2]) /\ IsWhole(q[4], q[3])
        /\ IsWhole(q[1], q[4]) /\ IsWhole(q[2], q[3]) }

\* one step of binary long division by d: the next quotient bit and remainder
DivStep(qr, d) ==
    IF 2 * qr[2] >= d THEN <<2 * qr[1] + 1, 2 * qr[2] - d>>
    ELSE <<2 * qr[1], 2 * qr[2]>>

\* floor(n * 2^t / d), and the remainder, from <<n \div d, n % d>>
RECURSIVE ShiftDiv(_, _, _)
ShiftDiv(qr, d, t) ==
    IF t = 0 THEN qr ELSE ShiftDiv(DivStep(qr, d), d, t - 1)

\* the shift t that gives the quotient floor(n * 2^t / d) 26 bits
RECURSIVE Shift26(_, _, _)
Shift26(qr, d, t) ==
    IF qr[1] >= 2^25 THEN t ELSE Shift26(DivStep(qr, d), d, t + 1)

\* n / d in float32 (n, d > 0 whole): the 24-bit significand m and exponent
\* e of the quotient m * 2^e rounded to nearest, ties to even
Float32Div(n, d) ==
    LET t  == Shift26(<<n \div d, n % d>>, d, 0)
        qr == ShiftDiv(<<n \div d, n % d>>, d, t)
        m  == qr[1] \div 4
        g  == qr[1] % 4
        up == g = 3 \/ (g = 2 /\ (qr[2] # 0 \/ m % 2 = 1))
    IN  [m |-> IF up THEN m + 1 ELSE m, e |-> 2 - t]

\* int(m * 2^e) for a positive float
IntOf(m, e) ==
    IF e >= 0 THEN m * 2^e
    ELSE IF -e > 30 THEN 0 ELSE m \div 2^(-e)

\* aspect_ratio = width_avg / height_avg, a float32
aspect_ratio(q) == Float32Div(WidthSum(q), HeightSum(q))

\* int(output_width / aspect_ratio).  The Python int 800 divided by a
\* np.float32 is a float32 division under NumPy 2 and a float64 division
\* under NumPy 1 (there the quotient is too close to the exact one for int()
\* to differ from the exact floor).  With height_avg = 0 the ratio is inf
\* and the quotient 0.0.
output_height(q, wide) ==
    IF HeightSum(q) = 0 THEN 0
    ELSE LET a == aspect_ratio(q)
         IN  IF wide
             THEN IF a.e > 0 THEN (output_width \div a.m) \div 2^(a.e)
                  ELSE ShiftDiv(<<output_width \div a.m, output_width % a.m>>,
                                a.m, -(a.e))[1]
             ELSE LET x == Float32Div(output_width, a.m)
                  IN  IntOf(x.m, x.e - a.e)

dst_points(h) ==
    << <<0, 0>>, <<output_width, 0>>, <<output_width, h>>, <<0, h>> >>

\* cv2.getPerspectiveTransform(src, dst): the matrix is kept as the four
\* correspondences it is solved from (it sends src[i] to dst[i] when the
\* system is regular); a singular system raises nothing
getPerspectiveTransform(src, dst) == [src |-> src, dst |-> dst]

TransformOnly ==
    UNCHANGED <<loopVars, valVars, mainVars, invVars,
                linesVars, selectVars, meetVars, gridVars,
                bordersVars, alignVars, scanVars>>

TransformInit ==
    /\ cpc = "call"
    /\ c_points \in TransformQuads
    /\ M = None
    /\ rectified_size = None

\* width_avg = 0: the ratio is 0.0 (or nan when height_avg = 0 too), the
\* quotient is inf (or nan), and int() raises OverflowError (or ValueError)
TransformRaises ==
    /\ cpc = "call"
    /\ WidthSum(c_points) = 0
    /\ cpc' = "raised"
    /\ UNCHANGED <<c_points, M, rectified_size>>
    /\ TransformOnly

\* every other quadrilateral: the matrix and the warped image are returned
\* (cv2.warpPerspective takes the source's size when dsize is empty)
TransformReturns ==
    /\ cpc = "call"
    /\ WidthSum(c_points) > 0
    /\ \E wide \in BOOLEAN :
         LET h == output_height(c_points, wide)
         IN  /\ M' = getPerspectiveTransform(c_points, dst_points(h))
             /\ rectified_size' =
                    IF h = 0 THEN <<FrameW, FrameH>> ELSE <<output_width, h>>
    /\ cpc' = "returned"
    /\ UNCHANGED c_points
    /\ TransformOnly

InitTransform == TransformInit /\ IdleBut("transform")
NextTransform == TransformRaises \/ TransformReturns
SpecTransform == InitTransform /\ [][NextTransform]_vars

-----------------------------------------------------------------------------
(* detect_and_classify_lines (main_realtime.py 57-87) and classify_lines    *)
(* (line_processing.py 79-115).  A line is its tuple (x1, y1, x2, y2); an   *)
(* image shape is (height, width).                                          *)

margin == 5

\* the image shapes tried
Shapes == { <<20, 20>>, <<25, 100>>, <<40, 60>> }

\* pixel positions tried along an axis of length n: the ends, the 5%, 20%,
\* 50%, 80% and 95% marks
Marks(n) ==
    {0, n \div 20, n \div 5, n \div 2, (4 * n) \div 5, (19 * n) \div 20, n - 1}

\* horizontal segments at 5%, 95% and 50% of the height, then vertical ones
\* at 5%, 95% and 50% of the width
ExampleLines(shape) ==
    << <<0, shape[1] \div 20, shape[2] - 1, shape[1] \div 20>>,
       <<0, (19 * shape[1]) \div 20, shape[2] - 1, (19 * shape[1]) \div 20>>,
       <<0, shape[1] \div 2, shape[2] - 1, shape[1] \div 2>>,
       <<shape[2] \div 20, 0, shape[2] \div 20, shape[1] - 1>>,
       <<(19 * shape[2]) \div 20, 0, (19 * shape[2]) \div 20, shape[1] - 1>>,
       <<shape[2] \div 2, 0, shape[2] \div 2, shape[1] - 1>> >>

\* what detect_lines may return for an image of this shape: None, the
\* example list, or a list of one segment between two marked pixels
DetectedLines(shape) ==
    {None, ExampleLines(shape)} \cup
    { << <<x1, y1, x2, y2>> >> :
        x1 \in Marks(shape[2]), y1 \in Marks(shape[1]),
        x2 \in Marks(shape[2]), y2 \in Marks(shape[1]) }

\* the four frame-edge segments, in the order they are appended
EdgeLines(shape) ==
    << <<margin, margin, shape[2] - margin, margin>>,
       <<margin, shape[1] - margin, shape[2] - margin, shape[1] - margin>>,
       <<margin, margin, margin, shape[1] - margin>>,
       <<shape[2] - margin, margin, shape[2] - margin, shape[1] - margin>> >>

\* abs(x2 - x1) > abs(y2 - y1)
IsHorizontal(l) == Abs(l[3] - l[1]) > Abs(l[4] - l[2])

\* (y1 + y2) / 2 < center_y and (y1 + y2) / 2 <= upper_limit, with
\* center_y = height // 2 and upper_limit = height * 0.2 (the float product
\* compares with a half-pixel midpoint as the exact fifth does)
IsTop(l, shape) ==
    /\ IsHorizontal(l)
    /\ l[2] + l[4] < 2 * (shape[1] \div 2)
    /\ 5 * (l[2] + l[4]) <= 2 * shape[1]

\* elif (y1 + y2) / 2 >= lower_limit, with lower_limit = height * 0.8
IsBottomStrict(l, shape) ==
    /\ IsHorizontal(l)
    /\ ~IsTop(l, shape)
    /\ 5 * (l[2] + l[4]) > 8 * shape[1]
IsBottom(l, shape) ==
    /\ IsHorizontal(l)
    /\ ~IsTop(l, shape)
    /\ 5 * (l[2] + l[4]) >= 8 * shape[1]

\* else: (x1 + x2) / 2 < center_x and (x1 + x2) / 2 <= left_limit
IsLeft(l, shape) ==
    /\ ~IsHorizontal(l)
    /\ l[1] + l[3] < 2 * (shape[2] \div 2)
    /\ 5 * (l[1] + l[3]) <= 2 * shape[2]

\* elif (x1 + x2) / 2 >= right_limit
IsRight(l, shape) ==
    /\ ~IsHorizontal(l)
    /\ ~IsLeft(l, shape)
    /\ 5 * (l[1] + l[3]) >= 8 * shape[2]

classify_lines(lines, img_shape) ==
    [ top    |-> SelectSeq(lines, LAMBDA l : IsTop(l, img_shape)),
      bottom |-> SelectSeq(lines, LAMBDA l : IsBottom(l, img_shape)),
      left   |-> SelectSeq(lines, LAMBDA l : IsLeft(l, img_shape)),
      right  |-> SelectSeq(lines, LAMBDA l : IsRight(l, img_shape)) ]

LinesOnly ==
    UNCHANGED <<loopVars, valVars, mainVars, invVars,
                transformVars, selectVars, meetVars, gridVars,
                bordersVars, alignVars, scanVars>>

LinesInit ==
    /\ dpc = "call"
    /\ image_shape \in Shapes
    /\ d_lines \in DetectedLines(image_shape)
    /\ image_lines = <<>>
    /\ borders = None

\* one call: the four edge segments are appended to the global image_lines,
\* they stand in for the detected lines when there are none, and the lines
\* are classified
DetectAndClassifyLines ==
    /\ dpc = "call"
    /\ image_lines' = image_lines \o EdgeLines(image_shape)
    /\ borders' = classify_lines(IF d_lines = None THEN EdgeLines(image_shape)
                                 ELSE d_lines, image_shape)
    /\ dpc' = "returned"
    /\ UNCHANGED <<image_shape, d_lines>>
    /\ LinesOnly

InitLines == LinesInit /\ IdleBut("lines")
NextLines == DetectAndClassifyLines
SpecLines == InitLines /\ [][NextLines]_vars

-----------------------------------------------------------------------------
(* select_most_representative_line and extend_line (line_processing.py).    *)
(* Angles are in thousandths of a degree.                                   *)

\* np.deg2rad(30)
ANGLE_THRESHOLD == 30000

\* the image shape of the selector's calls
SelectorShape == <<480, 640>>

\* the segments tried: about 10, 12, 80, 0, 90, -170, 45 and 38 degrees
SegmentPool ==
    { <<100, 100, 667, 200>>, <<100, 300, 570, 400>>, <<300, 50, 350, 334>>,
      <<50, 20, 600, 20>>, <<30, 50, 30, 400>>, <<600, 450, 33, 350>>,
      <<200, 200, 300, 300>>, <<400, 40, 528, 140>> }

\* the border sets tried: up to three different segments in any order
BorderSets ==
    { <<a>> : a \in SegmentPool }
    \cup { q \in [1..2 -> SegmentPool] : q[1] # q[2] }
    \cup { q \in [1..3 -> SegmentPool] : q[1] # q[2] /\ q[1] # q[3] /\ q[2] # q[3] }

\* np.arctan2(dy, dx), rounded, for the directions of the segments tried
arctan2(dy, dx) ==
    CASE <<dy, dx>> = <<100, 567>>   -> 10002
      [] <<dy, dx>> = <<100, 470>>   -> 12011
      [] <<dy, dx>> = <<284, 50>>    -> 80015
      [] <<dy, dx>> = <<0, 550>>     -> 0
      [] <<dy, dx>> = <<350, 0>>     -> 90000
      [] <<dy, dx>> = <<-100, -567>> -> -169998
      [] <<dy, dx>> = <<100, 100>>   -> 45000
      [] <<dy, dx>> = <<100, 128>>   -> 37999
      [] <<dy, dx>> = <<100, 275>>   -> 19983
      [] <<dy, dx>> = <<-100, 275>>  -> -19983
      [] <<dy, dx>> = <<284, -50>>   -> 99985
      [] dy = 0 /\ dx > 0            -> 0
      [] dx = 0 /\ dy > 0            -> 90000

line_angle(line) == arctan2(line[4] - line[2], line[3] - line[1])

are_lines_parallel(line1, line2) ==
    Abs(line_angle(line1) - line_angle(line2)) <= ANGLE_THRESHOLD

\* int(a / b): the quotient truncated towards zero
TruncDiv(a, b) ==
    IF (a >= 0) = (b > 0) THEN Abs(a) \div Abs(b) ELSE -(Abs(a) \div Abs(b))

\* an oblique line always gets the points where it meets y = 0 and
\* y = height - 1: x = x1 - y1 * dx / dy and x = x1 + (height - 1 - y1) * dx / dy
extend_line(line, img_shape) ==
    LET x1 == line[1]
        y1 == line[2]
        x2 == line[3]
        y2 == line[4]
    IN  IF x1 = x2 THEN <<x1, 0, x2, img_shape[1] - 1>>
        ELSE IF y1 = y2 THEN <<0, y1, img_shape[2] - 1, y2>>
        ELSE << TruncDiv(x1 * (y2 - y1) - y1 * (x2 - x1), y2 - y1), 0,
                TruncDiv(x1 * (y2 - y1) + (img_shape[1] - 1 - y1) * (x2 - x1), y2 - y1),
                img_shape[1] - 1 >>

RECURSIVE SumAngles(_)
SumAngles(ls) ==
    IF ls = <<>> THEN 0 ELSE line_angle(Head(ls)) + SumAngles(Tail(ls))

\* len(lines) * abs(line_angle(line) - average_angle(lines))
Deviation(line, ls) == Abs(Len(ls) * line_angle(line) - SumAngles(ls))

\* the index pairs i < j of parallel lines
ParallelPairs(ls) ==
    { p \in (1..Len(ls)) \X (1..Len(ls)) :
        p[1] < p[2] /\ are_lines_parallel(ls[p[1]], ls[p[2]]) }

\* the pair the nested scan stops at
FirstPair(ls) ==
    CHOOSE p \in ParallelPairs(ls) :
        \A q \in ParallelPairs(ls) :
            p[1] < q[1] \/ (p[1] = q[1] /\ p[2] <= q[2])

\* filter_lines_by_angle with a tolerance of 50 degrees
filter_lines_by_angleWide(ls) ==
    SelectSeq(ls, LAMBDA l :
        Deviation(l, ls) <= Len(ls) * 50000 + Abs(SumAngles(ls)) \div 100000)

\* np.isclose(angle, avg_angle, atol=pi / 36), with its rtol of 1e-5
filter_lines_by_angle(ls) ==
    SelectSeq(ls, LAMBDA l :
        Deviation(l, ls) <= Len(ls) * 5000 + Abs(SumAngles(ls)) \div 100000)

\* the lines representative_line may be for a non-empty list.  min() over
\* the pair: when both are equally far from the mean in exact arithmetic the
\* float keys differ by rounding only, and either may be the smaller
representative_lineOfAll(ls) ==
    IF ParallelPairs(ls) # {}
    THEN { ls[i] : i \in { k \in 1..Len(ls) :
              \A m \in 1..Len(ls) : Deviation(ls[k], ls) <= Deviation(ls[m], ls) } }
    ELSE { IF filter_lines_by_angle(ls) = <<>> THEN ls[1]
           ELSE filter_lines_by_angle(ls)[1] }
representative_line(ls) ==
    IF ParallelPairs(ls) # {}
    THEN LET a == ls[FirstPair(ls)[1]]
             b == ls[FirstPair(ls)[2]]
         IN  IF Deviation(a, ls) < Deviation(b, ls) THEN {a}
             ELSE IF Deviation(b, ls) < Deviation(a, ls) THEN {b}
             ELSE {a, b}
    ELSE { IF filter_lines_by_angle(ls) = <<>> THEN ls[1]
           ELSE filter_lines_by_angle(ls)[1] }

\* what selected_lines may get for one list of lines_group
SelectedFor(ls, img_shape) ==
    IF ls = <<>> THEN {None}
    ELSE { extend_line(r, img_shape) : r \in representative_line(ls) }

SelectOnly ==
    UNCHANGED <<loopVars, valVars, mainVars, invVars,
                transformVars, linesVars, meetVars, gridVars,
                bordersVars, alignVars, scanVars>>

SelectInit ==
    /\ spc = "call"
    /\ lines_group \in
         { <<t, b, l, r>> :
             t \in BorderSets,
             b \in {<<>>, << <<50, 20, 600, 20>> >>},
             l \in {<<>>, << <<30, 50, 30, 400>> >>},
             r \in {<<>>, << <<30, 50, 30, 400>>, <<300, 50, 350, 334>> >>} }
    /\ selected_lines = <<>>

select_most_representative_line ==
    /\ spc = "call"
    /\ \E t \in SelectedFor(lines_group[1], SelectorShape),
          b \in SelectedFor(lines_group[2], SelectorShape),
          l \in SelectedFor(lines_group[3], SelectorShape),
          r \in SelectedFor(lines_group[4], SelectorShape) :
         selected_lines' = <<t, b, l, r>>
    /\ spc' = "returned"
    /\ UNCHANGED lines_group
    /\ SelectOnly

InitSelect == SelectInit /\ IdleBut("select")
NextSelect == select_most_representative_line
SpecSelect == InitSelect /\ [][NextSelect]_vars

-----------------------------------------------------------------------------
(* Line.is_meeting (line.py 45-62).  A Vertex is its pair (x, y).           *)

HORIZONTAL == 1
VERTICAL == 2

\* Line(start, end, line_id, direction)
Line(start, end, line_id, direction) ==
    [start |-> start, end |-> end, id |-> line_id, direct |-> direction]

\* the lines tried: horizontal ones at four heights and vertical ones at
\* four abscissas, each from two starting points
MeetCoords == {0, 10, 20, 100}
MeetLines ==
    { Line(<<x, y>>, <<100, y>>, 0, HORIZONTAL) : x \in {0, 50}, y \in MeetCoords }
    \cup
    { Line(<<x, y>>, <<x, 100>>, 0, VERTICAL) : x \in MeetCoords, y \in {0, 50} }

is_meetingSwapped(self, other) ==
    IF self.direct # other.direct
    THEN IF self.direct = HORIZONTAL
         THEN <<self.start[1], other.start[2]>>
         ELSE <<self.start[1], other.start[2]>>
    ELSE None
is_meeting(self, other) ==
    IF self.direct # other.direct
    THEN IF self.direct = HORIZONTAL
         THEN <<other.start[1], self.start[2]>>
         ELSE <<self.start[1], other.start[2]>>
    ELSE None

MeetOnly ==
    UNCHANGED <<loopVars, valVars, mainVars, invVars,
                transformVars, linesVars, selectVars, gridVars,
                bordersVars, alignVars, scanVars>>

MeetInit ==
    /\ kpc = "call"
    /\ line_a \in MeetLines
    /\ line_b \in MeetLines
    /\ meet_ab = None
    /\ meet_ba = None

\* a.is_meeting(b) and b.is_meeting(a)
IsMeeting ==
    /\ kpc = "call"
    /\ meet_ab' = is_meeting(line_a, line_b)
    /\ meet_ba' = is_meeting(line_b, line_a)
    /\ kpc' = "returned"
    /\ UNCHANGED <<line_a, line_b>>
    /\ MeetOnly

InitMeet == MeetInit /\ IdleBut("meet")
NextMeet == IsMeeting
SpecMeet == InitMeet /\ [][NextMeet]_vars

-----------------------------------------------------------------------------
(* GridInterface (grid_class.py): border_lines is the list of slices        *)
(* (start_x, end_x) that slice_image_and_apply_colored_slices returns.      *)

CHOOSE_AREA == 1
CHOOSE_POINT_ON_GRID == 2

\* canvas.winfo_width() and canvas.winfo_height()
CanvasSize == <<200, 100>>

\* the slice lists tried
BorderLineSets ==
    { << <<0, 200>> >>,
      << <<0, 100>>, <<100, 200>> >>,
      << <<0, 100>>, <<100, 160>>, <<160, 200>> >> }

\* the canvas positions clicked
GridClicks == {10, 37, 50, 100, 130, 190} \X {0, 20, 60, 100}

NO_GRID_POINTS == "Error: No grid points available!"

\* Line.__eq__: the same end points, in either order
LineEq(a, b) ==
    \/ (a.start = b.start /\ a.end = b.end)
    \/ (a.start = b.end /\ a.end = b.start)

\* draw_grid1: no line when selected_slice > len(border_lines) - 1, else
\* five horizontal then five vertical lines over the slice (the quarter
\* steps are whole for the sizes tried)
draw_grid1(lines, slice) ==
    IF slice > Len(lines) - 1 THEN <<>>
    ELSE LET start_x == lines[slice][1]
             end_x == lines[slice + 1][1]
             area_height == CanvasSize[2]
             y_diff == area_height \div 4
             x_diff == (end_x - start_x) \div 4
         IN  [ i \in 1..5 |->
                 Line(<<start_x, (i - 1) * y_diff>>, <<end_x, (i - 1) * y_diff>>,
                      i, HORIZONTAL) ]
             \o
             [ i \in 1..5 |->
                 Line(<<start_x + (i - 1) * x_diff, 0>>,
                      <<start_x + (i - 1) * x_diff, area_height>>,
                      5 + i, VERTICAL) ]

\* the points appended for one line1 of the outer loop: one for every
\* line2 that is not equal to line1 and meets it
MeetingRow(gl, line1) ==
    LET partners == SelectSeq(gl, LAMBDA line2 :
                        ~LineEq(line1, line2) /\ is_meeting(line1, line2) # None)
    IN  [ j \in 1..Len(partners) |-> is_meeting(line1, partners[j]) ]

\* the points appended from the n-th line1 on
RECURSIVE PointsFrom(_, _)
PointsFrom(gl, n) ==
    IF n > Len(gl) THEN <<>>
    ELSE MeetingRow(gl, gl[n]) \o PointsFrom(gl, n + 1)

draw_point_on_grid(gl) == PointsFrom(gl, 1)

\* (v.x - x) ** 2 + (v.y - y) ** 2: the square of the min() key
SquaredDistance(v, x, y) == (v[1] - x) * (v[1] - x) + (v[2] - y) * (v[2] - y)

\* min(point_on_grid, key=...): the first of the nearest points
closest_vertexFirst(points, x, y) == points[1]
closest_vertex(points, x, y) ==
    points[CHOOSE i \in 1..Len(points) :
             \A j \in 1..Len(points) :
                SquaredDistance(points[i], x, y) < SquaredDistance(points[j], x, y)
                \/ (SquaredDistance(points[i], x, y) = SquaredDistance(points[j], x, y)
                    /\ i <= j)]

\* the indexes i + 1 of the slices with start_x < x < end_x
SlicesAt(lines, x) ==
    { k \in 1..Len(lines) :
        /\ lines[k][1] < x
        /\ x < (IF k + 1 <= Len(lines) THEN lines[k + 1][1] ELSE CanvasSize[1]) }

GridOnly ==
    UNCHANGED <<loopVars, valVars, mainVars, invVars,
                transformVars, linesVars, selectVars, meetVars,
                bordersVars, alignVars, scanVars>>

\* GridInterface.__init__ and start()
GridInit ==
    /\ gpc = "open"
    /\ border_lines \in BorderLineSets
    /\ state = CHOOSE_AREA
    /\ selected_slice = -1
    /\ grid_lines = <<>>
    /\ point_on_grid = <<>>
    /\ select_point = None
    /\ event = None
    /\ printed = ""

\* click_handle while an area is chosen: a click strictly inside a slice
\* selects it, draws the grid and its points and shows the confirm button
ClickArea ==
    /\ gpc = "open"
    /\ state = CHOOSE_AREA
    /\ \E c \in GridClicks :
         /\ event' = c
         /\ IF SlicesAt(border_lines, c[1]) = {}
            THEN UNCHANGED <<state, selected_slice, grid_lines, point_on_grid>>
            ELSE LET k == CHOOSE m \in SlicesAt(border_lines, c[1]) :
                            \A n \in SlicesAt(border_lines, c[1]) : m <= n
                 IN  /\ selected_slice' = k
                     /\ state' = CHOOSE_POINT_ON_GRID
                     /\ grid_lines' = grid_lines \o draw_grid1(border_lines, k)
                     /\ point_on_grid' =
                            draw_point_on_grid(grid_lines \o draw_grid1(border_lines, k))
    /\ printed' = ""
    /\ UNCHANGED <<gpc, border_lines, select_point>>
    /\ GridOnly

\* click_handle while a point is chosen, with grid points
ClickPoint ==
    /\ gpc = "open"
    /\ state = CHOOSE_POINT_ON_GRID
    /\ point_on_grid # <<>>
    /\ \E c \in GridClicks :
         /\ event' = c
         /\ select_point' = closest_vertex(point_on_grid, c[1], c[2])
    /\ printed' = ""
    /\ UNCHANGED <<gpc, border_lines, state, selected_slice, grid_lines, point_on_grid>>
    /\ GridOnly

\* click_handle while a point is chosen, without grid points
ClickNoPoints ==
    /\ gpc = "open"
    /\ state = CHOOSE_POINT_ON_GRID
    /\ point_on_grid = <<>>
    /\ \E c \in GridClicks : event' = c
    /\ printed' = NO_GRID_POINTS
    /\ UNCHANGED <<gpc, border_lines, state, selected_slice, grid_lines,
                   point_on_grid, select_point>>
    /\ GridOnly

\* confirm_hang_a_picture answered yes: draw_grid_on_slice returns
\* b.select_point
ConfirmHang ==
    /\ gpc = "open"
    /\ state = CHOOSE_POINT_ON_GRID
    /\ gpc' = "returned"
    /\ UNCHANGED <<border_lines, state, selected_slice, grid_lines, point_on_grid,
                   select_point, event, printed>>
    /\ GridOnly

\* the window is closed without a confirmation: exit_app is still True and
\* draw_grid_on_slice calls quit()
CloseWindow ==
    /\ gpc = "open"
    /\ gpc' = "quit"
    /\ UNCHANGED <<border_lines, state, selected_slice, grid_lines, point_on_grid,
                   select_point, event, printed>>
    /\ GridOnly

InitGrid == GridInit /\ IdleBut("grid")
NextGrid == ClickArea \/ ClickPoint \/ ClickNoPoints \/ ConfirmHang \/ CloseWindow
SpecGrid == InitGrid /\ [][NextGrid]_vars

-----------------------------------------------------------------------------
(* Steps 3 to 5 of main (main_realtime.py): the lines of the frame are      *)
(* detected and classified, a representative line is selected per side, a   *)
(* missing one is replaced from the global image_lines, and the corners are *)
(* found by find_intersection_points (lines_intersection_points.py).        *)

\* calls of detect_and_classify_lines made before the one of main
MaxEarlierCalls == 2

\* the shapes of the frames of those earlier calls
EarlierShapes == { <<480, 640>>, <<240, 320>> }

\* the segments detect_lines may find on each side of a 480 x 640 frame: one
\* with equal coordinates along its side and one oblique
TopSegments    == { <<50, 20, 600, 20>>, <<100, 20, 375, 120>> }
BottomSegments == { <<50, 450, 600, 450>>, <<100, 460, 375, 360>> }
LeftSegments   == { <<100, 50, 100, 400>>, <<80, 100, 130, 384>> }
RightSegments  == { <<600, 50, 600, 400>>, <<610, 100, 560, 384>> }

\* no segment or one segment of the set
UpToOne(segments) == { <<>> } \cup { <<seg>> : seg \in segments }

\* what detect_lines may return: at most one segment per side, None (the
\* empty tuple) when there is none at all
DetectedBorders ==
    { t \o b \o l \o r : t \in UpToOne(TopSegments), b \in UpToOne(BottomSegments),
                         l \in UpToOne(LeftSegments), r \in UpToOne(RightSegments) }

Min(a, b) == IF a <= b THEN a ELSE b
Max(a, b) == IF a >= b THEN a ELSE b

\* lo <= num / den <= hi, for den # 0
Between(lo, num, den, hi) ==
    IF den > 0 THEN lo * den <= num /\ num <= hi * den
    ELSE lo * den >= num /\ num >= hi * den

\* the body of the double loop of find_intersection_points for one pair: no
\* point or one point
PairPoint(l1, l2) ==
    LET x1 == l1[1]
        y1 == l1[2]
        x2 == l1[3]
        y2 == l1[4]
        x3 == l2[1]
        y3 == l2[2]
        x4 == l2[3]
        y4 == l2[4]
        denom == (x1 - x2) * (y3 - y4) - (y1 - y2) * (x3 - x4)
        px == (x1 * y2 - y1 * x2) * (x3 - x4) - (x1 - x2) * (x3 * y4 - y3 * x4)
        py == (x1 * y2 - y1 * x2) * (y3 - y4) - (y1 - y2) * (x3 * y4 - y3 * x4)
    IN  IF denom = 0 THEN <<>>
        ELSE IF /\ Between(Min(x1, x2), px, denom, Max(x1, x2))
                /\ Between(Min(y1, y2), py, denom, Max(y1, y2))
                /\ Between(Min(x3, x4), px, denom, Max(x3, x4))
                /\ Between(Min(y3, y4), py, denom, Max(y3, y4))
        THEN << <<TruncDiv(px, denom), TruncDiv(py, denom)>> >>
        ELSE <<>>

\* the points of the pairs (i, j), (i, j + 1), ... and of the later rows
RECURSIVE PointsOfPairs(_, _, _)
PointsOfPairs(ls, i, j) ==
    IF i > Len(ls) THEN <<>>
    ELSE IF j > Len(ls) THEN PointsOfPairs(ls, i + 1, i + 2)
    ELSE PairPoint(ls[i], ls[j]) \o PointsOfPairs(ls, i, j + 1)

find_intersection_points(ls) == PointsOfPairs(ls, 1, 2)

BordersOnly ==
    UNCHANGED <<loopVars, valVars, mainVars, invVars,
                transformVars, linesVars, selectVars, meetVars,
                gridVars, alignVars, scanVars>>

\* main is about to detect the lines of a 480 x 640 frame
BordersInit ==
    /\ bpc = "detect"
    /\ b_detected \in DetectedBorders
    /\ b_image_lines = <<>>
    /\ lines_groups = <<>>
    /\ representative_lines = <<>>
    /\ b_points = <<>>

\* a call of detect_and_classify_lines on another frame, before main's
EarlierCall ==
    /\ bpc = "detect"
    /\ Len(b_image_lines) < 4 * MaxEarlierCalls
    /\ \E shape \in EarlierShapes :
         b_image_lines' = b_image_lines \o EdgeLines(shape)
    /\ UNCHANGED <<bpc, b_detected, lines_groups, representative_lines, b_points>>
    /\ BordersOnly

\* step 3: detect_and_classify_lines(preprocessed_image)
DetectBorders ==
    /\ bpc = "detect"
    /\ b_image_lines' = b_image_lines \o EdgeLines(SelectorShape)
    /\ LET c == classify_lines(IF b_detected = None THEN EdgeLines(SelectorShape)
                               ELSE b_detected, SelectorShape)
       IN  lines_groups' = <<c.top, c.bottom, c.left, c.right>>
    /\ bpc' = "select"
    /\ UNCHANGED <<b_detected, representative_lines, b_points>>
    /\ BordersOnly

\* step 4, first half: select_most_representative_line(lines_groups, shape)
SelectBorders ==
    /\ bpc = "select"
    /\ \E t \in SelectedFor(lines_groups[1], SelectorShape),
          b \in SelectedFor(lines_groups[2], SelectorShape),
          l \in SelectedFor(lines_groups[3], SelectorShape),
          r \in SelectedFor(lines_groups[4], SelectorShape) :
         representative_lines' = <<t, b, l, r>>
    /\ bpc' = "substitute"
    /\ UNCHANGED <<b_detected, b_image_lines, lines_groups, b_points>>
    /\ BordersOnly

\* step 4, second half: representative_lines[i] = image_lines[i] where None
SubstituteBorders ==
    /\ bpc = "substitute"
    /\ representative_lines' =
         [ i \in 1..4 |-> IF representative_lines[i] = None THEN b_image_lines[i]
                          ELSE representative_lines[i] ]
    /\ bpc' = "intersect"
    /\ UNCHANGED <<b_detected, b_image_lines, lines_groups, b_points>>
    /\ BordersOnly

\* step 5: find_intersection_points(representative_lines)
IntersectBorders ==
    /\ bpc = "intersect"
    /\ b_points' = find_intersection_points(representative_lines)
    /\ bpc' = "found"
    /\ UNCHANGED <<b_detected, b_image_lines, lines_groups, representative_lines>>
    /\ BordersOnly

InitBorders == BordersInit /\ IdleBut("borders")
NextBorders ==
    \/ EarlierCall
    \/ DetectBorders
    \/ SelectBorders
    \/ SubstituteBorders
    \/ IntersectBorders
SpecBorders == InitBorders /\ [][NextBorders]_vars

-----------------------------------------------------------------------------
(* Rectification in main (main_realtime.py): the wall photograph (step 6),  *)
(* the new capture (step 11) and every frame of the alignment loop are      *)
(* rectified from ordered_points by rectify_image and rectify_image2.       *)

\* the quadrilaterals compute_perspective_transform does not raise for
RectifiableQuads == { q \in TransformQuads : WidthSum(q) > 0 }

\* the matrix rectify_image and rectify_image2 return: each call runs
\* compute_perspective_transform, which solves cv2.getPerspectiveTransform
rectify_image2(points, wide) ==
    getPerspectiveTransform(points, dst_points(output_height(points, wide)))

AlignOnly ==
    UNCHANGED <<loopVars, valVars, mainVars, invVars,
                transformVars, linesVars, selectVars, meetVars,
                gridVars, bordersVars, scanVars>>

\* main has ordered the corners; a_wide is the precision of the build's
\* final division, the same for every call of the process
AlignInit ==
    /\ apc = "rectify"
    /\ a_ordered_points \in RectifiableQuads
    /\ a_wide \in BOOLEAN
    /\ a_selected_point = None
    /\ a_M = None
    /\ a_frame_M = None
    /\ a_transforms = 0
    /\ a_frames = 0

\* step 6: M, rectified_img = rectify_image(copy_image, ordered_points),
\* then steps 7 to 9 give the selected point
RectifyWall ==
    /\ apc = "rectify"
    /\ a_M' = rectify_image2(a_ordered_points, a_wide)
    /\ a_transforms' = a_transforms + 1
    /\ a_selected_point' \in Targets
    /\ apc' = "capture"
    /\ UNCHANGED <<a_ordered_points, a_wide, a_frame_M, a_frames>>
    /\ AlignOnly

\* step 11: _, rectified_new_capture = rectify_image(new_capture_image,
\* ordered_points); steps 12 to 15 open the camera
RectifyCapture ==
    /\ apc = "capture"
    /\ a_transforms' = a_transforms + 1
    /\ apc' = "loop"
    /\ UNCHANGED <<a_ordered_points, a_wide, a_selected_point, a_M, a_frame_M, a_frames>>
    /\ AlignOnly

\* capture_frame returned None: continue
FrameMissing ==
    /\ apc = "loop"
    /\ a_frames < MaxFrames
    /\ a_frames' = a_frames + 1
    /\ UNCHANGED <<apc, a_ordered_points, a_wide, a_selected_point, a_M,
                   a_frame_M, a_transforms>>
    /\ AlignOnly

\* _, rectified_frame = rectify_image2(current_frame, ordered_points)
RectifyFrame ==
    /\ apc = "loop"
    /\ a_frames < MaxFrames
    /\ a_frames' = a_frames + 1
    /\ a_frame_M' = rectify_image2(a_ordered_points, a_wide)
    /\ a_transforms' = a_transforms + 1
    /\ apc' = "match"
    /\ UNCHANGED <<a_ordered_points, a_wide, a_selected_point, a_M>>
    /\ AlignOnly

\* the rest of the iteration: no template, or guidance spoken, no key
NextIteration ==
    /\ apc = "match"
    /\ apc' = "loop"
    /\ UNCHANGED <<a_ordered_points, a_wide, a_selected_point, a_M, a_frame_M,
                   a_transforms, a_frames>>
    /\ AlignOnly

\* the rest of the iteration: aligned, or the key q: break
LeaveLoop ==
    /\ apc = "match"
    /\ apc' = "released"
    /\ UNCHANGED <<a_ordered_points, a_wide, a_selected_point, a_M, a_frame_M,
                   a_transforms, a_frames>>
    /\ AlignOnly

InitAlign == AlignInit /\ IdleBut("align")
NextAlign ==
    \/ RectifyWall
    \/ RectifyCapture
    \/ FrameMissing
    \/ RectifyFrame
    \/ NextIteration
    \/ LeaveLoop
SpecAlign == InitAlign /\ [][NextAlign]_vars

-----------------------------------------------------------------------------
(* CamScanner (cam_scanner.py): the vertices are <<x, y>> pairs; the canvas *)
(* items are left out.                                                      *)

\* clicks followed in one session
MaxClicks == 3

\* the points the initial lists are made of
ScanPoints == { <<10, 10>>, <<90, 20>>, <<50, 60>> }

\* the lists run_camscanner_realtime may be given: up to five points
InitialLists == UNION { [1..n -> ScanPoints] : n \in 0..5 }

\* the canvas positions clicked
ClickSpots == { <<12, 14>>, <<50, 20>>, <<80, 70>> }

\* points[start:]
SliceFrom(seq, start) ==
    LET from == IF start < 0 THEN Max(Len(seq) + start, 0) ELSE Min(start, Len(seq))
    IN  SubSeq(seq, from + 1, Len(seq))

\* the place of v in a list sorted by y: after every vertex that is not
\* below it (Vertex.__lt__ compares y only)
RECURSIVE InsertByY(_, _)
InsertByY(v, sorted) ==
    IF sorted = <<>> THEN <<v>>
    ELSE IF v[2] < Head(sorted)[2] THEN <<v>> \o sorted
    ELSE <<Head(sorted)>> \o InsertByY(v, Tail(sorted))

RECURSIVE SortInto(_, _)
SortInto(sorted, rest) ==
    IF rest = <<>> THEN sorted
    ELSE SortInto(InsertByY(Head(rest), sorted), Tail(rest))

\* self.vertex_list.sort(): stable, by y
SortByY(seq) == SortInto(<<>>, seq)

\* draw_square when it does not raise: the list is sorted in place
draw_square(vertices) == SortByY(vertices)

\* the index of the vertex the loop of click_handle ends with: the last one
ClosestIndexLast(vertices, x, y) == Len(vertices)
\* the index of the vertex the loop of click_handle ends with: the first of
\* the nearest ones
ClosestIndex(vertices, x, y) ==
    CHOOSE i \in 1..Len(vertices) :
        \A j \in 1..Len(vertices) :
            \/ SquaredDistance(vertices[i], x, y) < SquaredDistance(vertices[j], x, y)
            \/ /\ SquaredDistance(vertices[i], x, y) = SquaredDistance(vertices[j], x, y)
               /\ i <= j

\* the vertex list after the first half of click_handle
Clicked(vertices, c) ==
    IF Len(vertices) < 4 THEN Append(vertices, c)
    ELSE [vertices EXCEPT ![ClosestIndex(vertices, c[1], c[2])] = c]

ScanOnly ==
    UNCHANGED <<loopVars, valVars, mainVars, invVars, transformVars,
                linesVars, selectVars, meetVars, gridVars, bordersVars,
                alignVars>>

\* run_camscanner_realtime(picture, points) is called, with a list or None
ScanInit ==
    /\ scan_pc = "init"
    /\ points_given \in BOOLEAN
    /\ initial_points \in InitialLists
    /\ points_given = FALSE => initial_points = <<>>
    /\ vertex_list = <<>>
    /\ click_count = 0
    /\ scan_event = "none"
    /\ click_at = None
    /\ tuple_list = None

\* __init__ without points, or with at least four: the last four are taken
\* and draw_vertex sorts them in draw_square
ConstructOpens ==
    /\ scan_pc = "init"
    /\ ~points_given \/ Len(initial_points) >= 4
    /\ vertex_list' =
         IF points_given
         THEN draw_square(SliceFrom(initial_points, Len(initial_points) - 4))
         ELSE <<>>
    /\ scan_pc' = "open"
    /\ UNCHANGED <<points_given, initial_points, click_count, scan_event,
                   click_at, tuple_list>>
    /\ ScanOnly

\* __init__ with fewer than four points: p1, p2, p3, p4 = self.vertex_list
\* in draw_square raises ValueError
ConstructRaises ==
    /\ scan_pc = "init"
    /\ points_given /\ Len(initial_points) < 4
    /\ vertex_list' = SliceFrom(initial_points, Len(initial_points) - 4)
    /\ scan_pc' = "raised"
    /\ UNCHANGED <<points_given, initial_points, click_count, scan_event,
                   click_at, tuple_list>>
    /\ ScanOnly

\* click_handle
ScanClick ==
    /\ scan_pc = "open"
    /\ click_count < MaxClicks
    /\ click_count' = click_count + 1
    /\ \E c \in ClickSpots :
         /\ click_at' = c
         /\ vertex_list' =
              IF Len(Clicked(vertex_list, c)) = 4
              THEN draw_square(Clicked(vertex_list, c))
              ELSE Clicked(vertex_list, c)
    /\ scan_event' = "click"
    /\ UNCHANGED <<scan_pc, points_given, initial_points, tuple_list>>
    /\ ScanOnly

\* finish_handle with fewer than four vertices: return
FinishIgnored ==
    /\ scan_pc = "open"
    /\ Len(vertex_list) < 4
    /\ scan_event' = "finish ignored"
    /\ UNCHANGED <<scan_pc, points_given, initial_points, vertex_list,
                   click_count, click_at, tuple_list>>
    /\ ScanOnly

\* finish_handle, the answer is no
FinishDeclined ==
    /\ scan_pc = "open"
    /\ Len(vertex_list) >= 4
    /\ scan_event' = "finish declined"
    /\ UNCHANGED <<scan_pc, points_given, initial_points, vertex_list,
                   click_count, click_at, tuple_list>>
    /\ ScanOnly

\* finish_handle, the answer is yes: the window is destroyed and
\* run_camscanner_realtime returns the vertices
FinishConfirmed ==
    /\ scan_pc = "open"
    /\ Len(vertex_list) >= 4
    /\ scan_event' = "finish confirmed"
    /\ tuple_list' = vertex_list
    /\ scan_pc' = "returned"
    /\ UNCHANGED <<points_given, initial_points, vertex_list, click_count, click_at>>
    /\ ScanOnly

\* the window is closed: exit_app is still True and quit() is called
CloseScanner ==
    /\ scan_pc = "open"
    /\ scan_pc' = "quit"
    /\ UNCHANGED <<points_given, initial_points, vertex_list, click_count,
                   scan_event, click_at, tuple_list>>
    /\ ScanOnly

InitScan == ScanInit /\ IdleBut("scan")
NextScan ==
    \/ ConstructOpens
    \/ ConstructRaises
    \/ ScanClick
    \/ FinishIgnored
    \/ FinishDeclined
    \/ FinishConfirmed
    \/ CloseScanner
SpecScan == InitScan /\ [][NextScan]_vars

-----------------------------------------------------------------------------
(* Properties of the alignment loop *)

Last(s) == s[Len(s)]
dxOf(r) == r.centre[1] - selected_point[1]
dyOf(r) == r.centre[2] - selected_point[2]
Detected(r) == r.centre # None /\ selected_point # None

\* the scenario of C1: target (100,100) and three frames with the centres
\* (110,95), (101,99), (100,100)
C1_Scenario ==
    /\ selected_point = <<Px(100), Px(100)>>
    /\ Len(trace) = 3
    /\ trace[1].centre = <<Px(110), Px(95)>>
    /\ trace[2].centre = <<Px(101), Px(99)>>
    /\ trace[3].centre = <<Px(100), Px(100)>>

\* C1 as stated: in the scenario the first two frames say "move left",
\* "move up" and the third frame aligns with no directional guidance.
C1_Original ==
    C1_Scenario =>
        /\ trace[1].said = <<MOVE_LEFT, MOVE_UP>>
        /\ trace[2].said = <<MOVE_LEFT, MOVE_UP>>
        /\ trace[3].outcome = "aligned" /\ trace[3].said = <<SUCCESS>>
        /\ pc = "released"

\* C1 (amended): in the scenario the centres are above the target (dy = -5,
\* then dy = -1), so the first two frames say "move left", "move down"; the
\* third frame aligns, says only the confirmation, and the loop has ended.
C1_ScenarioGuidance ==
    C1_Scenario =>
        /\ trace[1].said = <<MOVE_LEFT, MOVE_DOWN>>
        /\ trace[2].said = <<MOVE_LEFT, MOVE_DOWN>>
        /\ trace[3].outcome = "aligned" /\ trace[3].said = <<SUCCESS>>
        /\ pc = "released"

C1_Witness == C1_Scenario /\ pc = "released" /\ ~vidOpen

\* C2: every frame with a detected centre that does not align says exactly
\* one horizontal symbol then one vertical symbol: left if dx > 0 else right
\* (dx = 0 included), up if dy > 0 else down (dy = 0 included).
C2_BothSymbolsEveryFrame ==
    \A i \in 1..Len(trace) :
        (Detected(trace[i]) /\ trace[i].outcome # "aligned") =>
            trace[i].said =
                << IF dxOf(trace[i]) > 0 THEN "Move left" ELSE "Move right",
                   IF dyOf(trace[i]) > 0 THEN "Move up" ELSE "Move down" >>

\* a frame with dx = 0 (y off by 5) said "move right", and a frame with
\* dy = 0 (x off by 10) said "move down"
C2_Witness ==
    /\ Len(trace) = 2
    /\ trace[1].centre = <<Px(100), Px(95)>>
    /\ trace[1].said = <<MOVE_RIGHT, MOVE_DOWN>>
    /\ trace[2].centre = <<Px(110), Px(100)>>
    /\ trace[2].said = <<MOVE_LEFT, MOVE_DOWN>>

\* C3: a frame aligns if and only if a centre was detected on it with
\* |dx| < 1 pixel and |dy| < 1 pixel, both strict.
C3_AlignedIffWithinOnePixel ==
    \A i \in 1..Len(trace) :
        (trace[i].outcome = "aligned") <=>
            (/\ Detected(trace[i])
             /\ Abs(dxOf(trace[i])) < Px(1)
             /\ Abs(dyOf(trace[i])) < Px(1))

\* a frame exactly one pixel off in x did not align, and a frame a fraction
\* of a pixel off on both axes did
C3_Witness ==
    /\ Len(trace) = 2
    /\ trace[1].centre = <<Px(101), Px(100)>> /\ trace[1].outcome = "guided"
    /\ trace[2].centre = <<Px(100) - 1, Px(100) + 1>> /\ trace[2].outcome = "aligned"

\* C4: the aligning iteration says the confirmation once and no direction,
\* it is the last iteration of the loop, and the loop has stopped.
C4_AlignedIsTerminal ==
    \A i \in 1..Len(trace) :
        trace[i].outcome = "aligned" =>
            /\ trace[i].said = <<SUCCESS>>
            /\ i = Len(trace)
            /\ pc = "released"

C4_Witness ==
    /\ Len(trace) = 2 /\ Len(trace) < MaxFrames
    /\ trace[1].outcome = "guided"
    /\ trace[2].outcome = "aligned"
    /\ keyQ = FALSE

\* C5 as stated: every iteration that does not leave the loop by alignment
\* reads the quit key before the next one starts, and a pending 'q' ends
\* the loop.
C5_QuitCheckedEveryIteration ==
    [][ (/\ Len(trace') > Len(trace)
         /\ Last(trace').outcome \in {"capture_failed", "no_template", "guided"})
        => (Last(trace').keyChecked /\ (keyQ => pc' # "loop")) ]_vars

C7_ReleasedOnEveryExit == pc \in {"released", "raised"} => ~vidOpen

-----------------------------------------------------------------------------
(* Properties of corner validation and of the corner steps of main *)

\* the point p lies on the segment a-b
OnSegment(a, b, p) ==
    /\ cross_product(a, b, p) = 0
    /\ (IF a[1] <= b[1] THEN a[1] <= p[1] /\ p[1] <= b[1] ELSE b[1] <= p[1] /\ p[1] <= a[1])
    /\ (IF a[2] <= b[2] THEN a[2] <= p[2] /\ p[2] <= b[2] ELSE b[2] <= p[2] /\ p[2] <= a[2])

\* the segments a-b and c-d have a point in common
SegmentsMeet(a, b, c, d) ==
    \/ /\ cross_product(a, b, c) * cross_product(a, b, d) < 0
       /\ cross_product(c, d, a) * cross_product(c, d, b) < 0
    \/ OnSegment(a, b, c) \/ OnSegment(a, b, d)
    \/ OnSegment(c, d, a) \/ OnSegment(c, d, b)

\* the outline q1-q2-q3-q4-q1 does not cross or touch itself
SimpleQuad(q) ==
    /\ \A i, j \in 1..4 : i # j => q[i] # q[j]
    /\ ~SegmentsMeet(q[1], q[2], q[3], q[4])
    /\ ~SegmentsMeet(q[2], q[3], q[4], q[1])

\* repeated or collinear corners, or a self-intersecting outline
DegenerateQuad(q) ==
    \/ \E i, j, k \in 1..4 :
          i < j /\ j < k /\ cross_product(q[i], q[j], q[k]) = 0
    \/ ~SimpleQuad(q)

\* each corner in its quarter of the frame: TL, TR, BR, BL
InExpectedQuadrants(q) ==
    /\ q[1][1] < FrameW \div 2 /\ q[1][2] < FrameH \div 2
    /\ q[2][1] >= FrameW \div 2 /\ q[2][2] < FrameH \div 2
    /\ q[3][1] >= FrameW \div 2 /\ q[3][2] >= FrameH \div 2
    /\ q[4][1] < FrameW \div 2 /\ q[4][2] >= FrameH \div 2

\* C8 as stated: validate_and_get_points returns four points unchanged when
\* they form a simple quadrilateral with each corner in its expected quadrant
\* (an axis-aligned rectangle with a corner per quadrant among them).
C8_SimpleQuadAccepted ==
    (/\ vpc = "returned"
     /\ Len(v_points) = 4
     /\ InExpectedQuadrants(v_points)
     /\ SimpleQuad(v_points))
    => v_result = v_points

\* C9 as stated: no degenerate quadrilateral (repeated or collinear corners,
\* or a self-intersecting outline) coming from the corner-correction step
\* reaches compute_perspective_transform.
C9_NoDegenerateQuadRectified ==
    mpc = "rectified" => ~DegenerateQuad(src_points)

-----------------------------------------------------------------------------
(* Properties of apply_inverse_perspective_transform *)

\* C10: every pixel strictly outside the quadrilateral has, in the returned
\* image, exactly the value it has in the original image.
C10_OutsideUntouched ==
    ipc = "returned" =>
        \A p \in Pixels :
            ~InConvexPoly(p, quad) => result[p] = original_img[p]

\* a call that returned, with a pixel outside the quadrilateral where the
\* warped image is not black, and a pixel inside it that was composited
C10_Witness ==
    /\ ipc = "returned"
    /\ \E p \in Pixels :
          ~InConvexPoly(p, quad) /\ warped_img[p] # 0 /\ original_img[p] # 0
    /\ \E p \in Pixels :
          InConvexPoly(p, quad) /\ result[p] # original_img[p]

\* C11 as stated: every pixel inside the quadrilateral has, in the returned
\* image, the inverse-warped value of the processed image: the original
\* image's value is not added to it and nothing wraps around 8 bits.
C11_InsideIsWarpedValue ==
    ipc = "returned" =>
        \A p \in Pixels :
            InConvexPoly(p, quad) => result[p] = warped_img[p]

-----------------------------------------------------------------------------
(* Properties of compute_perspective_transform *)

\* corners TL, TR, BR, BL of an axis-aligned rectangle of positive area
AxisRectangle(q) ==
    /\ q[1][1] < q[2][1] /\ q[1][2] < q[4][2]
    /\ q[2] = <<q[2][1], q[1][2]>>
    /\ q[3] = <<q[2][1], q[4][2]>>
    /\ q[4] = <<q[1][1], q[4][2]>>

\* C12 as stated: for every axis-aligned rectangle given as TL, TR, BR, BL
\* the returned homography sends its corners to (0,0), (W,0), (W,H), (0,H)
\* with W = 800 and H = floor(W * mean(left, right) / mean(top, bottom)).
C12_RectangleToCanonical ==
    (cpc = "returned" /\ AxisRectangle(c_points)) =>
        /\ M.src = c_points
        /\ M.dst = << <<0, 0>>, <<800, 0>>,
                      <<800, (800 * HeightSum(c_points)) \div WidthSum(c_points)>>,
                      <<0, (800 * HeightSum(c_points)) \div WidthSum(c_points)>> >>

\* the four corners lie on one line (coincident corners included)
ZeroArea(q) ==
    \A i, j, k \in 1..4 : cross_product(q[i], q[j], q[k]) = 0

\* C13 as stated: a call with a zero-area quadrilateral ends in an error
\* that reaches the caller; it never returns a matrix and an image.
C13_ZeroAreaRaises ==
    (cpc # "call" /\ ZeroArea(c_points)) => (cpc = "raised" /\ M = None)

-----------------------------------------------------------------------------
(* Properties of line detection and classification *)

InSeq(x, sq) == \E i \in 1..Len(sq) : sq[i] = x

\* C14 as stated: when line detection returns no lines, each of the four
\* returned sets is non-empty and holds the synthesized frame-edge segment
\* of its own side, whatever the frame size.
C14_FallbackFillsAllSides ==
    (dpc = "returned" /\ d_lines = None) =>
        /\ InSeq(EdgeLines(image_shape)[1], borders.top)
        /\ InSeq(EdgeLines(image_shape)[2], borders.bottom)
        /\ InSeq(EdgeLines(image_shape)[3], borders.left)
        /\ InSeq(EdgeLines(image_shape)[4], borders.right)

\* C15: a segment with |dx| > |dy| is in TOP iff its midpoint y is above the
\* vertical centre and within the top 20% of the height, in BOTTOM iff its
\* midpoint y is within the bottom 20%, and never in LEFT or RIGHT; the same
\* for a segment with |dy| > |dx| with x, the width, LEFT and RIGHT.
C15_ClassifiedByMidpoint ==
    (dpc = "returned" /\ d_lines # None) =>
        \A i \in 1..Len(d_lines) :
            LET l == d_lines[i]
                h == image_shape[1]
                w == image_shape[2]
                xsum == l[1] + l[3]
                ysum == l[2] + l[4]
            IN  /\ Abs(l[3] - l[1]) > Abs(l[4] - l[2]) =>
                      /\ InSeq(l, borders.top) <=> (ysum < h /\ 5 * ysum <= 2 * h)
                      /\ InSeq(l, borders.bottom) <=> (5 * ysum >= 8 * h)
                      /\ ~InSeq(l, borders.left) /\ ~InSeq(l, borders.right)
                /\ Abs(l[4] - l[2]) > Abs(l[3] - l[1]) =>
                      /\ InSeq(l, borders.left) <=> (xsum < w /\ 5 * xsum <= 2 * w)
                      /\ InSeq(l, borders.right) <=> (5 * xsum >= 8 * w)
                      /\ ~InSeq(l, borders.top) /\ ~InSeq(l, borders.bottom)

\* the example list classified: the segments at 5% and 95% are the border
\* sets and the two at 50% are in none
C15_Witness ==
    /\ dpc = "returned"
    /\ image_shape = <<40, 60>>
    /\ d_lines = ExampleLines(image_shape)
    /\ borders.top = << <<0, 2, 59, 2>> >>
    /\ borders.bottom = << <<0, 38, 59, 38>> >>
    /\ borders.left = << <<3, 0, 3, 39>> >>
    /\ borders.right = << <<57, 0, 57, 39>> >>

-----------------------------------------------------------------------------
(* Properties of select_most_representative_line *)

\* the set of the elements of a list
Range(sq) == { sq[i] : i \in 1..Len(sq) }

\* the segments of C16: about 10, 12 and 80 degrees
Near10 == <<100, 100, 667, 200>>
Near12 == <<100, 300, 570, 400>>
Near80 == <<300, 50, 350, 334>>

\* C16: for a border set made of the segments at 10, 12 and 80 degrees in
\* any order the returned line is the extension of the 10 or the 12 degree
\* segment and not that of the 80 degree one; and whenever some pair of a
\* border set is within the 30 degree tolerance, the returned line is the
\* extension of a member of the first such pair in scan order.
C16_MemberOfFirstParallelPair ==
    spc = "returned" =>
        \A g \in 1..Len(lines_group) :
            LET ls == lines_group[g]
            IN  /\ Range(ls) = {Near10, Near12, Near80} =>
                      /\ selected_lines[g] \in { extend_line(Near10, SelectorShape),
                                                 extend_line(Near12, SelectorShape) }
                      /\ selected_lines[g] # extend_line(Near80, SelectorShape)
                /\ \A i, j \in 1..Len(ls) :
                      (/\ i < j
                       /\ are_lines_parallel(ls[i], ls[j])
                       /\ \A k, m \in 1..Len(ls) :
                             (k < m /\ (k < i \/ (k = i /\ m < j)))
                                 => ~are_lines_parallel(ls[k], ls[m]))
                      => selected_lines[g] \in { extend_line(ls[i], SelectorShape),
                                                 extend_line(ls[j], SelectorShape) }

\* the outlier first: the scan passes two pairs before it finds the
\* near-parallel one, and the 12 degree segment is returned extended
C16_Witness ==
    /\ spc = "returned"
    /\ lines_group[1] = <<Near80, Near10, Near12>>
    /\ selected_lines[1] = <<-1310, 0, 941, 479>>

-----------------------------------------------------------------------------
(* Properties of Line.is_meeting *)

\* C17: is_meeting of a HORIZONTAL and a VERTICAL line is the point (x of
\* the vertical line, y of the horizontal line) whichever of the two is the
\* receiver, so a.is_meeting(b) = b.is_meeting(a); two lines of the same
\* orientation give no point.
C17_MeetingPointSymmetric ==
    kpc = "returned" =>
        /\ meet_ab = meet_ba
        /\ (line_a.direct = HORIZONTAL /\ line_b.direct = VERTICAL) =>
               meet_ab = <<line_b.start[1], line_a.start[2]>>
        /\ (line_a.direct = VERTICAL /\ line_b.direct = HORIZONTAL) =>
               meet_ab = <<line_a.start[1], line_b.start[2]>>
        /\ line_a.direct = line_b.direct => meet_ab = None

\* the horizontal line y = 10 and the vertical line x = 20 meet at (20, 10)
C17_Witness ==
    /\ kpc = "returned"
    /\ line_a.direct = HORIZONTAL /\ line_a.start = <<0, 10>>
    /\ line_b.direct = VERTICAL /\ line_b.start = <<20, 0>>
    /\ meet_ab = <<20, 10>> /\ meet_ba = <<20, 10>>

-----------------------------------------------------------------------------
(* Properties of order_points *)

\* C18 as stated: order_points gives the same ordered quadrilateral for
\* every permutation of the same four points, points that share an x or a
\* y coordinate included.
C18_OrderIgnoresPermutation ==
    mpc \in {"rectify", "rectified"} =>
        \A sigma \in Permutations(1..4) :
            \A q \in order_points([i \in 1..4 |-> intersection_points[sigma[i]]]) :
                q = ordered_points

-----------------------------------------------------------------------------
(* Properties of the grid interface *)

\* C19 as stated: once the grid is drawn over a slice, point_on_grid holds
\* exactly 25 points, one per (vertical line, horizontal line) pair and none
\* listed twice; over the slice [0,100] x [0,100] they are the points
\* (25 i, 25 j) for i, j in 0..4.
C19_TwentyFiveDistinctPoints ==
    grid_lines # <<>> =>
        /\ Len(point_on_grid) = 25
        /\ \A i, j \in 1..Len(point_on_grid) :
              i # j => point_on_grid[i] # point_on_grid[j]
        /\ (border_lines[selected_slice] = <<0, 100>>) =>
              Range(point_on_grid) = { <<25 * i, 25 * j>> : i \in 0..4, j \in 0..4 }

\* C20: a click in the point-selection state with grid points sets the
\* selected point to a grid point that is at least as near to the click as
\* every other grid point; without grid points the click reports the error
\* and leaves the selected point as it was.
C20_ClickSelectsNearest ==
    [][ (gpc = "open" /\ gpc' = "open" /\ state = CHOOSE_POINT_ON_GRID) =>
          IF point_on_grid # <<>>
          THEN /\ \E i \in 1..Len(point_on_grid) : point_on_grid[i] = select_point'
               /\ \A j \in 1..Len(point_on_grid) :
                     SquaredDistance(select_point', event'[1], event'[2])
                        <= SquaredDistance(point_on_grid[j], event'[1], event'[2])
          ELSE printed' = NO_GRID_POINTS /\ select_point' = select_point ]_vars

\* a click at (37, 20) on the grid over the slice [0,100] selected (25, 25)
C20_Witness ==
    /\ gpc = "open"
    /\ state = CHOOSE_POINT_ON_GRID
    /\ border_lines[selected_slice] = <<0, 100>>
    /\ Len(point_on_grid) > 1
    /\ event = <<37, 20>>
    /\ select_point = <<25, 25>>

-----------------------------------------------------------------------------
(* More properties of line classification *)

\* C21 as stated: after classify_lines every segment in TOP or BOTTOM has
\* |dx| > |dy| and every segment in LEFT or RIGHT has |dy| > |dx|, so that a
\* segment with |dx| = |dy| is in none of the four sets.
C21_OrientationOfEverySet ==
    dpc = "returned" =>
        /\ \A l \in Range(borders.top) \cup Range(borders.bottom) :
              Abs(l[3] - l[1]) > Abs(l[4] - l[2])
        /\ \A l \in Range(borders.left) \cup Range(borders.right) :
              Abs(l[4] - l[2]) > Abs(l[3] - l[1])

-----------------------------------------------------------------------------
(* More properties of corner validation *)

\* C22: validate_and_get_points returns the default rectangle (10,10),
\* (w-10,10), (w-10,h-10), (10,h-10) whenever the input does not have exactly
\* four points, or a corner lies outside its expected quadrant, or the
\* cross-product test of is_connected_shape fails.
C22_DefaultOnRejection ==
    (/\ vpc = "returned"
     /\ \/ Len(v_points) # 4
        \/ \E i \in 1..4 :
              ~is_point_in_quadrant(v_points[i], i - 1, FrameW, FrameH)
        \/ ~is_connected_shape(v_points))
    => v_result = << <<10, 10>>, <<FrameW - 10, 10>>,
                    <<FrameW - 10, FrameH - 10>>, <<10, FrameH - 10>> >>

\* a returned call whose four points, each in its quadrant, failed the
\* cross-product test and were replaced by the default rectangle
C22_Witness ==
    /\ vpc = "returned"
    /\ Len(v_points) = 4
    /\ \A i \in 1..4 :
          is_point_in_quadrant(v_points[i], i - 1, FrameW, FrameH)
    /\ ~is_connected_shape(v_points)
    /\ v_result # v_points
    /\ v_result = default_points(FrameH, FrameW)

-----------------------------------------------------------------------------
(* More properties of select_most_representative_line *)

\* no two segments of the list are within the 30-degree tolerance
NoParallelPair(ls) ==
    \A a, b \in 1..Len(ls) :
        a < b => Abs(line_angle(ls[a]) - line_angle(ls[b])) > ANGLE_THRESHOLD

\* the angle of the segment is within 5 degrees of the mean angle of the list
WithinFiveDegrees(l, ls) ==
    Abs(Len(ls) * line_angle(l) - SumAngles(ls)) <= Len(ls) * 5000

\* C25: for a non-empty border set with no pair of segments within the
\* 30-degree tolerance, the segment chosen (and then extended) is the first
\* one whose angle is within 5 degrees of the mean angle of the set, or the
\* first segment of the set when there is none; it is a member of the set.
C25_FallbackChoosesFirstNearMean ==
    spc = "returned" =>
        \A i \in 1..4 :
            LET ls == lines_group[i]
            IN  (ls # <<>> /\ NoParallelPair(ls)) =>
                    \E k \in 1..Len(ls) :
                        /\ selected_lines[i] = extend_line(ls[k], SelectorShape)
                        /\ \A m \in 1..(k - 1) : ~WithinFiveDegrees(ls[m], ls)
                        /\ \/ WithinFiveDegrees(ls[k], ls)
                           \/ k = 1 /\ \A m \in 1..Len(ls) : ~WithinFiveDegrees(ls[m], ls)

\* a returned call where the top set has three segments, no two of them
\* within 30 degrees, and the one chosen near the mean is not the first
C25_Witness ==
    /\ spc = "returned"
    /\ Len(lines_group[1]) = 3
    /\ NoParallelPair(lines_group[1])
    /\ ~WithinFiveDegrees(lines_group[1][1], lines_group[1])
    /\ WithinFiveDegrees(lines_group[1][2], lines_group[1])
    /\ selected_lines[1] = extend_line(lines_group[1][2], SelectorShape)
    /\ selected_lines[1] # extend_line(lines_group[1][1], SelectorShape)

-----------------------------------------------------------------------------
(* Properties of steps 3 to 5 of main *)

\* C23 as stated: for four representative lines (top, bottom, left, right,
\* each extended by extend_line or replaced by a frame-edge segment)
\* find_intersection_points returns at most four points, and neither the
\* top and bottom lines nor the left and right lines contribute a point.
C23_AtMostFourCorners ==
    bpc = "found" =>
        /\ Len(b_points) <= 4
        /\ PairPoint(representative_lines[1], representative_lines[2]) = <<>>
        /\ PairPoint(representative_lines[3], representative_lines[4]) = <<>>

\* C24 as stated: the segment chosen for a horizontal class (TOP or BOTTOM),
\* exact or oblique, comes back from extend_line with endpoints at x = 0 and
\* x = width - 1, and the one chosen for a vertical class (LEFT or RIGHT)
\* with endpoints at y = 0 and y = height - 1.
C24_ExtendedAlongOwnDirection ==
    bpc = "substitute" =>
        \A i \in 1..4 :
            representative_lines[i] # None =>
                IF i <= 2
                THEN /\ representative_lines[i][1] = 0
                     /\ representative_lines[i][3] = SelectorShape[2] - 1
                ELSE /\ representative_lines[i][2] = 0
                     /\ representative_lines[i][4] = SelectorShape[1] - 1

\* C26 as stated: after the substitution step of main all four
\* representative lines are non-null, and a null at position i (top, bottom,
\* left, right) has been replaced by the synthesized edge segment of the
\* same side of the current frame, however many times
\* detect_and_classify_lines has appended to image_lines before.
C26_NullReplacedByOwnEdge ==
    bpc \in {"intersect", "found"} =>
        \A i \in 1..4 :
            /\ representative_lines[i] # None
            /\ lines_groups[i] = <<>> =>
                  representative_lines[i] = EdgeLines(SelectorShape)[i]

-----------------------------------------------------------------------------
(* Properties of rectification in main *)

\* a step of the alignment loop computes no homography, leaves the
\* quadrilateral and the target point alone and warps with the stored matrix
LoopReusesHomography ==
    apc \in {"loop", "match"} =>
        /\ a_transforms' = a_transforms
        /\ a_ordered_points' = a_ordered_points
        /\ a_selected_point' = a_selected_point
        /\ apc' = "match" => a_frame_M' = a_M

\* C27 as stated: the homography is computed once from the quadrilateral
\* before the alignment loop starts and that stored matrix is applied to
\* every frame; no iteration of the loop recomputes the homography or
\* modifies the quadrilateral or the target point.
C27_HomographyComputedOnce ==
    [][LoopReusesHomography]_vars

-----------------------------------------------------------------------------
(* More properties of the grid interface *)

\* the grid lines of one direction
LinesOf(direction) ==
    { grid_lines[i] : i \in { k \in 1..Len(grid_lines) :
                                grid_lines[k].direct = direction } }

\* C28 as stated: for every slice, the last one included, a click strictly
\* inside it during area selection produces a grid of 5 horizontal and 5
\* vertical segments that spans exactly that slice's x range, and a
\* non-empty lattice of grid points.
C28_GridSpansClickedSlice ==
    state = CHOOSE_POINT_ON_GRID =>
        LET start_x == border_lines[selected_slice][1]
            end_x == border_lines[selected_slice][2]
        IN  /\ Cardinality(LinesOf(HORIZONTAL)) = 5
            /\ Cardinality(LinesOf(VERTICAL)) = 5
            /\ \A l \in LinesOf(HORIZONTAL) :
                  l.start[1] = start_x /\ l.end[1] = end_x
            /\ \A l \in LinesOf(VERTICAL) :
                  start_x <= l.start[1] /\ l.start[1] <= end_x
            /\ \E l \in LinesOf(VERTICAL) : l.start[1] = start_x
            /\ \E l \in LinesOf(VERTICAL) : l.start[1] = end_x
            /\ point_on_grid # <<>>

\* C29 as stated: whenever draw_grid_on_slice returns (the user confirmed),
\* the returned point is one of the lattice points of the drawn grid and is
\* never None, whatever clicks and confirmations came before.
C29_ReturnedPointOnLattice ==
    gpc = "returned" =>
        /\ select_point # None
        /\ \E i \in 1..Len(point_on_grid) : point_on_grid[i] = select_point

-----------------------------------------------------------------------------
(* Properties of CamScanner *)

\* the two lists hold the same vertices, in whatever order
SameVertices(a, b) ==
    /\ Len(a) = Len(b)
    /\ \E p \in Permutations(1..Len(a)) : \A i \in 1..Len(a) : a[i] = b[p[i]]

\* what one step of a session may do to the vertex list
ScannerStep ==
    /\ Len(vertex_list') <= 4
    /\ (click_count' = click_count + 1 /\ Len(vertex_list) < 4) =>
          SameVertices(vertex_list', Append(vertex_list, click_at'))
    /\ (click_count' = click_count + 1 /\ Len(vertex_list) = 4) =>
          \E i \in 1..4 :
              /\ \A j \in 1..4 :
                    SquaredDistance(vertex_list[i], click_at'[1], click_at'[2])
                      <= SquaredDistance(vertex_list[j], click_at'[1], click_at'[2])
              /\ SameVertices(vertex_list', [vertex_list EXCEPT ![i] = click_at'])
    /\ (scan_pc = "open" /\ scan_event' # scan_event
          /\ click_count' = click_count /\ Len(vertex_list) < 4) =>
          vertex_list' = vertex_list /\ scan_pc' = "open"
    /\ scan_pc' = "returned" => Len(tuple_list') = 4

\* C30: for every list of initial points, of any length, and every sequence
\* of clicks and Finish presses the vertex list never holds more than four
\* vertices: a click with fewer than four adds one, a click with four moves
\* the nearest vertex, Finish does nothing with fewer than four, and a
\* confirmed session returns exactly four points.
C30_NeverMoreThanFourVertices ==
    [][ScannerStep]_vars

\* a confirmed session that was given five points, in which a click moved
\* one of the four vertices kept
C30_Witness ==
    /\ scan_pc = "returned"
    /\ Len(initial_points) = 5
    /\ click_count > 0
    /\ Len(tuple_list) = 4
    /\ \E i \in 1..4 : tuple_list[i] = click_at
    /\ ~SameVertices(tuple_list, SubSeq(initial_points, 2, 5))

=============================================================================
